---- MODULE Spec2Model ----
(***************************************************************************)
(* Model of the gambiarra-arena server core: the WebSocket hub             *)
(* (server/src/ws/hub.ts), the round manager (server/src/core/rounds.ts)   *)
(* and the HTTP control plane that drives them (routes).                   *)
(*                                                                         *)
(* Every async handler is cut at its awaits: one action per database       *)
(* access, followed by the synchronous code up to the next await.  The     *)
(* handlers in flight are the records of `tasks`.                          *)
(***************************************************************************)
EXTENDS Integers, Sequences, FiniteSets, Bags, TLC

\* ------------------------------------------------------------------ bounds
MaxSeq == 1
MaxRegisters == 2
\* the malformed frames one connection sends
MaxInvalid == 1
\* the sockets a client opens
MaxOpens == 2
\* the largest maxTokens MockRunner.generate is called with
MaxMaxTokens == 60

\* the PINs POST /session draws, in the order it draws them: one per session
SessionPins == <<"123456", "654321">>
SessionIds == DOMAIN SessionPins
Pins == {SessionPins[i] : i \in SessionIds}
\* the ids prisma gives the rounds, in creation order
RoundIds == {1, 2}
Conns == {"c1", "c2"}
Pids == {"p1", "p2"}
Contents == {"a", "b"}
TokenRounds == {1, 2}
\* the handlers that may be in flight together
TaskSlots == {1, 2}

\* null / undefined of an id, a Date or a number
None == 0

\* ------------------------------------------------------- program constants
DefaultMaxTokens == 400
DefaultDeadlineMs == 90000

\* the clock readings of the heartbeat timer's ticks
Timestamps == {30000, 60000}

VARIABLES
  sessions,      \* prisma.session rows, in creation order; the id is the position
  rounds,        \* prisma.round rows, in creation order; the id is the position
  participants,  \* prisma.participant rows, keyed by id
  connections,   \* WebSocketHub.connections : connId -> ParticipantConnection
  tokenBuffer,   \* WebSocketHub.tokenBuffer : participantId -> round -> tokens
  ws,            \* state of each transport: "none", "open", "closed", or
                 \* "faulty": connected, but a write to it throws
  sent,          \* frames written to each transport with ws.send, in order
  tasks,         \* bag of the async handlers in flight, each stopped at an await
  accepted,      \* history: per (participant, round) the token messages pushed
  reply,         \* the HTTP response the last step produced, NoReply if none
  metrics,       \* prisma.metrics rows, keyed by <<round id, participant id>>
  received,      \* history: per <<round index, participant>> the complete
                 \* message received last
  heartbeatInterval,  \* WebSocketHub.heartbeatInterval: "set" or "cleared"
  votes,         \* the votes, keyed by <<round id, voter, participant id>>
  client,        \* one GambiarraClient with its challenge handler
  runner,        \* one call of MockRunner.generate
  snapshot       \* the Map the last getCurrentRoundTokens call returned, as
                 \* its caller sees it now

vars == <<sessions, rounds, participants, connections, tokenBuffer, ws, sent,
          tasks, accepted, reply, metrics, received, heartbeatInterval, votes,
          client, runner, snapshot>>

NoReply == [op |-> "none", outcome |-> "none"]

Has(f, k) == k \in DOMAIN f

\* Map.set(k, v)
MapSet(f, k, v) == [x \in DOMAIN f \cup {k} |-> IF x = k THEN v ELSE f[x]]

\* Map.delete(k)
MapDelete(f, k) == [x \in DOMAIN f \ {k} |-> f[x]]

EmptyMap == <<>>

\* ------------------------------------------------------------ token stream

\* hub.ts:152, the negation of `message.seq !== tokens.length`
SeqAcceptsReplay(message, tokens) == message.seq <= Len(tokens)

SeqMatches(message, tokens) == message.seq = Len(tokens)

\* hub.ts:140-147: the two lazy creations that precede the sequence check
EnsureStream(tb, message) ==
  LET tb1 == IF Has(tb, message.participant_id) THEN tb
             ELSE MapSet(tb, message.participant_id, EmptyMap)
      roundBuffer == tb1[message.participant_id]
  IN IF Has(roundBuffer, message.round) THEN tb1
     ELSE MapSet(tb1, message.participant_id,
                 MapSet(roundBuffer, message.round, <<>>))

\* hub.ts:137-171: the token buffer after handleToken(message)
HandleTokenBuffer(tb, message) ==
  LET tb2 == EnsureStream(tb, message)
      tokens == tb2[message.participant_id][message.round]
  IN IF SeqMatches(message, tokens)
     THEN MapSet(tb2, message.participant_id,
                 MapSet(tb2[message.participant_id], message.round,
                        Append(tokens, message.content)))
     ELSE tb2

\* hub.ts:275-286: getCurrentRoundTokens(roundIndex), the snapshot
GetCurrentRoundTokens(tb, roundIndex) ==
  [p \in {q \in DOMAIN tb : Has(tb[q], roundIndex)} |-> tb[p][roundIndex]]

\* The stream of a key, the empty sequence when it was never created
Stream(tb, p, r) == IF Has(tb, p) /\ Has(tb[p], r) THEN tb[p][r] ELSE <<>>

TokenMessages ==
  [type : {"token"}, participant_id : Pids, round : TokenRounds,
   seq : 0..MaxSeq, content : Contents]

\* ------------------------------------------------------------------- tasks

InFlight == BagToSet(tasks)

\* a new handler may start
CanSpawn == BagCardinality(tasks) < Cardinality(TaskSlots)

Spawn(task) == tasks (+) SetToBag({task})

Finish(task) == tasks (-) SetToBag({task})

Continue(task, next) == (tasks (-) SetToBag({task})) (+) SetToBag({next})

RECURSIVE SumOver(_, _)
SumOver(S, f) ==
  IF S = {} THEN 0
  ELSE LET x == CHOOSE y \in S : TRUE IN f[x] + SumOver(S \ {x}, f)

\* the number of handlers of one kind in flight
Running(kind) ==
  LET S == {task \in InFlight : task.kind = kind}
  IN SumOver(S, [task \in S |-> CopiesIn(task, tasks)])

\* ws.send(frame) on the transport of connection c
Send(out, c, frame) == [out EXCEPT ![c] = Append(@, frame)]

\* ------------------------------------------------------------- connections

\* hub.ts:33-55: a transport connects, handleConnection installs the handlers
Connect(c) ==
  /\ ws[c] = "none"
  /\ ws' = [ws EXCEPT ![c] = "open"]
  /\ reply' = NoReply
  /\ UNCHANGED <<sessions, rounds, participants, connections, tokenBuffer,
                 sent, tasks, accepted, metrics, received,
                 heartbeatInterval, votes, client, runner, snapshot>>

DisconnectAll(conns, c) == EmptyMap

\* hub.ts:234-240: handleDisconnection(connId)
HandleDisconnection(conns, c) == IF Has(conns, c) THEN MapDelete(conns, c) ELSE conns

\* hub.ts:48-50: the transport closes and the 'close' handler runs
Close(c) ==
  /\ ws[c] \in {"open", "faulty"}
  /\ ws' = [ws EXCEPT ![c] = "closed"]
  /\ connections' = HandleDisconnection(connections, c)
  /\ reply' = NoReply
  /\ UNCHANGED <<sessions, rounds, participants, tokenBuffer, sent, tasks, accepted,
                 metrics, received,
                 heartbeatInterval, votes, client, runner, snapshot>>

\* hub.ts:253-257: broadcastToTelao(message) logs the message and writes to
\* no transport
BroadcastToTelao(out, conns, frame) == out

\* hub.ts:163-170
TokenUpdate(message, total) ==
  [type |-> "token_update", participant_id |-> message.participant_id,
   round |-> message.round, seq |-> message.seq, content |-> message.content,
   total_tokens |-> total]

\* no getCurrentRoundTokens call has returned
NoSnapshot == [round |-> None, refs |-> {}, view |-> EmptyMap, taken |-> EmptyMap]

\* hub.ts:275-286: result.set(participantId, tokens) stores the buffer's own
\* arrays in the returned Map: `refs` are the participants whose returned
\* array is still the array of the buffer
TakeSnapshot(tb, roundIndex) ==
  [round |-> roundIndex, refs |-> DOMAIN GetCurrentRoundTokens(tb, roundIndex),
   view |-> GetCurrentRoundTokens(tb, roundIndex),
   \* history: the value as it was returned
   taken |-> GetCurrentRoundTokens(tb, roundIndex)]

\* hub.ts:160: tokens.push(content) on an array that a returned Map holds
PushSeen(snap, message, pushed) ==
  IF pushed /\ message.round = snap.round /\ message.participant_id \in snap.refs
  THEN [snap EXCEPT !.view[message.participant_id] = Append(@, message.content)]
  ELSE snap

\* hub.ts:275-286: getCurrentRoundTokens(roundIndex); it has no await
GetSnapshot(roundIndex) ==
  /\ snapshot' = TakeSnapshot(tokenBuffer, roundIndex)
  /\ reply' = NoReply
  /\ UNCHANGED <<sessions, rounds, participants, connections, tokenBuffer,
                 ws, sent, tasks, accepted, metrics, received,
                 heartbeatInterval, votes, client, runner>>

\* hub.ts:36-46, 57-72, 137-171: a token frame arrives on connection c.
\* handleToken has no await: the whole handler is one step.
ReceiveToken(c, message) ==
  /\ ws[c] = "open"
  /\ tokenBuffer' = HandleTokenBuffer(tokenBuffer, message)
  /\ sent' =
       LET before == Stream(tokenBuffer, message.participant_id, message.round)
           after == Stream(tokenBuffer', message.participant_id, message.round)
       IN IF Len(after) > Len(before)
          THEN BroadcastToTelao(sent, connections, TokenUpdate(message, Len(after)))
          ELSE sent
  /\ accepted' =
       IF Len(Stream(tokenBuffer', message.participant_id, message.round))
            > Len(Stream(tokenBuffer, message.participant_id, message.round))
       THEN [accepted EXCEPT ![message.participant_id][message.round] =
               Append(@, message)]
       ELSE accepted
  /\ snapshot' =
       PushSeen(snapshot, message,
                Len(Stream(tokenBuffer', message.participant_id, message.round))
                  > Len(Stream(tokenBuffer, message.participant_id, message.round)))
  /\ reply' = NoReply
  /\ UNCHANGED <<sessions, rounds, participants, connections, ws,
                 tasks, metrics, received,
                 heartbeatInterval, votes, client, runner>>

\* ------------------------------------------------------------------ frames

\* the message types handleMessage dispatches on (hub.ts:58-71)
ClientTypes == {"register", "token", "complete", "error"}

\* the fields the client sends with each type
RequiredFields(type) ==
  CASE type = "register" -> {"participant_id", "nickname", "pin", "runner", "model"}
    [] type = "token" -> {"round", "participant_id", "seq", "content"}
    [] type = "complete" -> {"round", "participant_id", "tokens", "duration_ms"}
    [] type = "error" -> {"participant_id", "code", "message"}

\* ClientMessageSchema.parse(raw) returns: a known type with its fields
SchemaAccepts(raw) ==
  /\ Has(raw, "type")
  /\ raw.type \in ClientTypes
  /\ RequiredFields(raw.type) \subseteq DOMAIN raw

\* frames as they arrive: `json` tells whether JSON.parse(data) returns, and
\* `value` is what it returns
RawFrames ==
  {[json |-> FALSE],
   [json |-> TRUE, value |-> [type |-> "bogus", participant_id |-> "p1"]],
   [json |-> TRUE, value |-> [type |-> "token", participant_id |-> "p1"]],
   [json |-> TRUE, value |-> [type |-> "token", participant_id |-> "p1",
                              round |-> 1, seq |-> 0, content |-> "a"]]}

\* hub.ts:38-39: neither JSON.parse nor ClientMessageSchema.parse throws
Parses(data) == data.json /\ SchemaAccepts(data.value)

\* the `Invalid message format` replies written to c so far
InvalidReplies(c) ==
  {i \in 1..Len(sent[c]) : sent[c][i] = [type |-> "error",
                                         message |-> "Invalid message format"]}

RejectFrameTwice(out, c) ==
  [out EXCEPT ![c] = @ \o << [type |-> "error", message |-> "Invalid message format"],
                             [type |-> "error", message |-> "Invalid message format"] >>]

\* hub.ts:42-45: the catch block logs and answers with one error frame
RejectFrame(out, c) ==
  Send(out, c, [type |-> "error", message |-> "Invalid message format"])

\* hub.ts:36-46: a frame arrives on c that JSON.parse or the schema rejects;
\* the handler has no await before the catch block: one step
ReceiveInvalid(c, data) ==
  /\ ws[c] = "open"
  /\ ~Parses(data)
  /\ Cardinality(InvalidReplies(c)) < MaxInvalid
  /\ sent' = RejectFrame(sent, c)
  /\ reply' = NoReply
  /\ UNCHANGED <<sessions, rounds, participants, connections, tokenBuffer,
                 ws, tasks, accepted, metrics, received,
                 heartbeatInterval, votes, client, runner, snapshot>>

\* ---------------------------------------------------------------- sessions

\* prisma.session.findFirst({where: {status: 'active'}, orderBy: {createdAt: 'desc'}})
ActiveSessions == {i \in 1..Len(sessions) : sessions[i].status = "active"}

FindActiveSession ==
  IF ActiveSessions = {} THEN None
  ELSE CHOOSE i \in ActiveSessions : \A j \in ActiveSessions : j <= i

\* routes:167-171: updateMany({where: {status: 'active'}, data: {status: 'ended'}})
EndActiveSessions(ss) == [i \in 1..Len(ss) |-> [ss[i] EXCEPT !.status = "ended"]]

\* routes:157-171: POST /session up to the await of updateMany
CreateSessionEnd ==
  /\ CanSpawn
  /\ Len(sessions) + Running("createSession") < Cardinality(SessionIds)
  /\ sessions' = EndActiveSessions(sessions)
  /\ tasks' = Spawn([kind |-> "createSession", pc |-> "ended"])
  /\ reply' = NoReply
  /\ UNCHANGED <<rounds, participants, connections, tokenBuffer, ws, sent, accepted,
                 metrics, received,
                 heartbeatInterval, votes, client, runner, snapshot>>

\* routes:173-187: POST /session, the create and the response
CreateSessionCreate(task) ==
  /\ task \in InFlight
  /\ task.kind = "createSession"
  /\ sessions' = Append(sessions, [status |-> "active",
                                  pin |-> SessionPins[Len(sessions) + 1]])
  /\ tasks' = Finish(task)
  /\ reply' = [op |-> "createSession", outcome |-> "ok"]
  /\ UNCHANGED <<rounds, participants, connections, tokenBuffer, ws, sent, accepted,
                 metrics, received,
                 heartbeatInterval, votes, client, runner, snapshot>>

\* ---------------------------------------------------------------- register

RegisterMessages == [type : {"register"}, participant_id : Pids, pin : Pins]

\* replies that answer a register
RegisterReplies(c) ==
  {i \in 1..Len(sent[c]) :
     \/ sent[c][i].type = "registered"
     \/ sent[c][i].type = "error" /\ sent[c][i].message # "Invalid message format"}

\* register frames received so far, answered or in flight
RegistersSeen ==
  SumOver(Conns, [c \in Conns |-> Cardinality(RegisterReplies(c))])
    + Running("register")

PinIgnored(message, session) == TRUE

\* hub.ts:92: bcrypt.compare(message.pin, session.pinHash)
PinValid(message, session) == message.pin = session.pin

\* hub.ts:99-114: prisma.participant.upsert; `update` leaves sessionId alone
UpsertParticipant(ps, message, sessionId) ==
  IF Has(ps, message.participant_id) THEN ps
  ELSE MapSet(ps, message.participant_id, [sessionId |-> sessionId])

BindKeepsFirst(conns, c, message, sessionId) ==
  IF Has(conns, c) THEN conns
  ELSE MapSet(conns, c, [participantId |-> message.participant_id,
                         sessionId |-> sessionId])

\* hub.ts:117-123: connections.set(connId, {...})
Bind(conns, c, message, sessionId) ==
  MapSet(conns, c, [participantId |-> message.participant_id,
                    sessionId |-> sessionId])

ErrorFrame(text) == [type |-> "error", message |-> text]

\* hub.ts:130
RegisteredFrame(sessionId) == [type |-> "registered", session_id |-> sessionId]

\* hub.ts:74-84: a register frame arrives on c; the handler runs to the
\* session lookup
RegisterFind(c, message) ==
  /\ ws[c] = "open"
  /\ CanSpawn
  /\ RegistersSeen < MaxRegisters
  /\ tasks' = Spawn([kind |-> "register", pc |-> "found", conn |-> c,
                     msg |-> message, session |-> FindActiveSession,
                     \* history: the sessions that were active at the lookup
                     active |-> ActiveSessions])
  /\ reply' = NoReply
  /\ UNCHANGED <<sessions, rounds, participants, connections, tokenBuffer,
                 ws, sent, accepted, metrics, received,
                 heartbeatInterval, votes, client, runner, snapshot>>

\* hub.ts:86-96: what the handler answers before it upserts: the error text,
\* or "" when it goes on
RegisterRefusal(message, sid) ==
  IF sid = None THEN "No active session"
  ELSE IF ~PinValid(message, sessions[sid]) THEN "Invalid PIN"
  ELSE ""

\* hub.ts:86-114: no session, a wrong PIN, or the participant upsert
RegisterDecide(task) ==
  /\ task \in InFlight
  /\ task.kind = "register"
  /\ task.pc = "found"
  /\ LET c == task.conn
         message == task.msg
         sid == task.session
         refusal == RegisterRefusal(message, sid)
     IN IF refusal # ""
        THEN /\ sent' = Send(sent, c, ErrorFrame(refusal))
             /\ tasks' = Finish(task)
             /\ UNCHANGED participants
        ELSE /\ participants' = UpsertParticipant(participants, message, sid)
             /\ tasks' = Continue(task, [task EXCEPT !.pc = "upserted"])
             /\ UNCHANGED sent
  /\ reply' = NoReply
  /\ UNCHANGED <<sessions, rounds, connections, tokenBuffer, ws, accepted, metrics, received,
                 heartbeatInterval, votes, client, runner, snapshot>>

\* hub.ts:99, 131-134: the upsert rejects and the catch block answers
RegisterUpsertThrows(task) ==
  /\ task \in InFlight
  /\ task.kind = "register"
  /\ task.pc = "found"
  /\ RegisterRefusal(task.msg, task.session) = ""
  /\ sent' = Send(sent, task.conn, ErrorFrame("Registration failed"))
  /\ tasks' = Finish(task)
  /\ reply' = NoReply
  /\ UNCHANGED <<sessions, rounds, participants, connections, tokenBuffer,
                 ws, accepted, metrics, received,
                 heartbeatInterval, votes, client, runner, snapshot>>

\* hub.ts:116-130: after the upsert, bind the connection and reply
RegisterFinish(task) ==
  /\ task \in InFlight
  /\ task.kind = "register"
  /\ task.pc = "upserted"
  /\ LET c == task.conn
         message == task.msg
         sid == task.session
     IN /\ connections' = Bind(connections, c, message, sid)
        /\ sent' = Send(sent, c, RegisteredFrame(sid))
  /\ tasks' = Finish(task)
  /\ reply' = NoReply
  /\ UNCHANGED <<sessions, rounds, participants, tokenBuffer, ws, accepted, metrics, received,
                 heartbeatInterval, votes, client, runner, snapshot>>

\* ------------------------------------------------------------------ rounds

\* the request bodies POST /rounds is called with
RoundParams == {[prompt |-> "p", maxTokens |-> 10], [prompt |-> "q"]}

\* `params.x ?? d`
OrDefault(params, field, d) == IF Has(params, field) THEN params[field] ELSE d

RoundsOf(sessionId) == {i \in 1..Len(rounds) : rounds[i].sessionId = sessionId}

\* rounds.ts:32: nextIndex = session.rounds.length + 1
NextIndex(count) == count + 1

\* rounds.ts:34-45: the row prisma.round.create inserts
NewRound(sessionId, index, params) ==
  [sessionId |-> sessionId, index |-> index, prompt |-> params.prompt,
   maxTokens |-> OrDefault(params, "maxTokens", DefaultMaxTokens),
   temperature |-> OrDefault(params, "temperature", "0.8"),
   deadlineMs |-> OrDefault(params, "deadlineMs", DefaultDeadlineMs),
   seed |-> OrDefault(params, "seed", None),
   startedAt |-> None, endedAt |-> None]

\* the three-state lifecycle the two timestamps record
RoundState(r) ==
  IF r.startedAt = None THEN "pending"
  ELSE IF r.endedAt = None THEN "active" ELSE "ended"

\* rounds.ts:115-124: getCurrentRound(sessionId), None when there is none
OpenRounds(sessionId) ==
  {i \in RoundsOf(sessionId) : rounds[i].startedAt # None /\ rounds[i].endedAt = None}

GetCurrentRound(sessionId) ==
  IF OpenRounds(sessionId) = {} THEN None
  ELSE CHOOSE i \in OpenRounds(sessionId) :
         \A j \in OpenRounds(sessionId) : rounds[j].index <= rounds[i].index

\* routes:191-201: POST /rounds looks the active session up
RoundsRouteFind(params) ==
  /\ Len(rounds) + Running("createRound") < Cardinality(RoundIds)
  /\ IF FindActiveSession = None
     THEN /\ reply' = [op |-> "createRound", outcome |-> "NoActiveSession"]
          /\ UNCHANGED tasks
     ELSE /\ CanSpawn
          /\ tasks' = Spawn([kind |-> "createRound", pc |-> "route",
                          sessionId |-> FindActiveSession, params |-> params,
                          count |-> 0])
          /\ reply' = NoReply
  /\ UNCHANGED <<sessions, rounds, participants, connections, tokenBuffer,
                 ws, sent, accepted, metrics, received,
                 heartbeatInterval, votes, client, runner, snapshot>>

\* rounds.ts:22-32: createRound reads the session with its rounds
CreateRoundRead(task) ==
  /\ task \in InFlight
  /\ task.kind = "createRound"
  /\ task.pc = "route"
  /\ tasks' = Continue(task, [task EXCEPT !.pc = "read",
                            !.count = Cardinality(RoundsOf(task.sessionId))])
  /\ reply' = NoReply
  /\ UNCHANGED <<sessions, rounds, participants, connections, tokenBuffer,
                 ws, sent, accepted, metrics, received,
                 heartbeatInterval, votes, client, runner, snapshot>>

\* rounds.ts:34-49: createRound inserts the round
CreateRoundWrite(task) ==
  /\ task \in InFlight
  /\ task.kind = "createRound"
  /\ task.pc = "read"
  /\ rounds' = Append(rounds, NewRound(task.sessionId,
                                       NextIndex(task.count), task.params))
  /\ tasks' = Finish(task)
  /\ reply' = [op |-> "createRound", outcome |-> "ok"]
  /\ UNCHANGED <<sessions, participants, connections, tokenBuffer, ws, sent, accepted,
                 metrics, received,
                 heartbeatInterval, votes, client, runner, snapshot>>

\* `new Date()`, stored over the value `old`.  A date is modelled by the
\* ordinal of the write that stored it: no code compares two dates, and two
\* writes of one field never store the same instant.
NewDate(old) == old + 1

\* prisma.round.findUnique({where: {id}}): a sequence of zero or one row
FindRound(roundId) == IF roundId \in 1..Len(rounds) THEN <<rounds[roundId]>> ELSE <<>>

BroadcastToTransports(out, conns, frame) ==
  [c \in DOMAIN out |-> Append(out[c], frame)]

\* the transport of c fails: from now on `ws.send` on it throws
Fault(c) ==
  /\ ws[c] = "open"
  /\ ws' = [ws EXCEPT ![c] = "faulty"]
  /\ reply' = NoReply
  /\ UNCHANGED <<sessions, rounds, participants, connections, tokenBuffer,
                 sent, tasks, accepted, metrics, received,
                 heartbeatInterval, votes, client, runner, snapshot>>

\* hub.ts:246: conn.ws.send(payload) throws
Throws(c) == ws[c] = "faulty"

BroadcastUncaught(out, conns, frame) ==
  IF \E c \in DOMAIN conns : Throws(c) THEN out
  ELSE [c \in DOMAIN out |-> IF Has(conns, c) THEN Append(out[c], frame) ELSE out[c]]

\* hub.ts:242-251: broadcast(message) writes to every connection of the
\* registry; a write that throws is caught and the loop goes on
Broadcast(out, conns, frame) ==
  [c \in DOMAIN out |->
     IF Has(conns, c) /\ ~Throws(c) THEN Append(out[c], frame) ELSE out[c]]

HeartbeatFrame(ts) == [type |-> "heartbeat", ts |-> ts]

\* hub.ts:259-266: a tick of the 30 s timer broadcasts heartbeat{ts: Date.now()}
Heartbeat(ts) ==
  /\ heartbeatInterval = "set"
  /\ \A c \in Conns : \A i \in 1..Len(sent[c]) :
       sent[c][i].type = "heartbeat" => sent[c][i].ts < ts
  /\ sent' = Broadcast(sent, connections, HeartbeatFrame(ts))
  /\ reply' = NoReply
  /\ UNCHANGED <<sessions, rounds, participants, connections, tokenBuffer,
                 ws, tasks, accepted, metrics, received,
                 heartbeatInterval, votes, client, runner, snapshot>>

\* rounds.ts:72-81: the challenge frame, built from the row read at line 53
Challenge(round) ==
  [type |-> "challenge", session_id |-> round.sessionId, round |-> round.index,
   prompt |-> round.prompt, max_tokens |-> round.maxTokens,
   temperature |-> round.temperature, deadline_ms |-> round.deadlineMs,
   seed |-> round.seed]

\* rounds.ts:52-56 (routes:212-215): startRound reads the round
StartRoundFind(roundId) ==
  /\ CanSpawn
  /\ tasks' = Spawn([kind |-> "startRound", pc |-> "found", roundId |-> roundId,
                  round |-> FindRound(roundId)])
  /\ reply' = NoReply
  /\ UNCHANGED <<sessions, rounds, participants, connections, tokenBuffer,
                 ws, sent, accepted, metrics, received,
                 heartbeatInterval, votes, client, runner, snapshot>>

StartAlways(round) == TRUE

\* rounds.ts:62: startRound goes on unless `round.startedAt` is set
StartAllowed(round) == round.startedAt = None

\* rounds.ts:58-69: the two checks, then the update of startedAt
StartRoundUpdate(task) ==
  /\ task \in InFlight
  /\ task.kind = "startRound"
  /\ task.pc = "found"
  /\ LET id == task.roundId
         found == task.round
     IN IF found = <<>>
        THEN /\ reply' = [op |-> "startRound", outcome |-> "RoundNotFound"]
             /\ tasks' = Finish(task)
             /\ UNCHANGED rounds
        ELSE IF ~StartAllowed(found[1])
        THEN /\ reply' = [op |-> "startRound", outcome |-> "AlreadyStarted"]
             /\ tasks' = Finish(task)
             /\ UNCHANGED rounds
        ELSE /\ rounds' = [rounds EXCEPT ![id].startedAt = NewDate(@)]
             /\ tasks' = Continue(task, [task EXCEPT !.pc = "updated"])
             /\ reply' = NoReply
  /\ UNCHANGED <<sessions, participants, connections, tokenBuffer, ws, sent,
                 accepted, metrics, received,
                 heartbeatInterval, votes, client, runner, snapshot>>

\* rounds.ts:71-85: after the update, the challenge is broadcast
StartRoundBroadcast(task) ==
  /\ task \in InFlight
  /\ task.kind = "startRound"
  /\ task.pc = "updated"
  /\ sent' = Broadcast(sent, connections, Challenge(task.round[1]))
  /\ tasks' = Finish(task)
  /\ reply' = [op |-> "startRound", outcome |-> "ok"]
  /\ UNCHANGED <<sessions, rounds, participants, connections, tokenBuffer,
                 ws, accepted, metrics, received,
                 heartbeatInterval, votes, client, runner, snapshot>>

\* rounds.ts:88-91 (routes:221-224): stopRound reads the round
StopRoundFind(roundId) ==
  /\ CanSpawn
  /\ tasks' = Spawn([kind |-> "stopRound", pc |-> "found", roundId |-> roundId,
                  round |-> FindRound(roundId)])
  /\ reply' = NoReply
  /\ UNCHANGED <<sessions, rounds, participants, connections, tokenBuffer,
                 ws, sent, accepted, metrics, received,
                 heartbeatInterval, votes, client, runner, snapshot>>

StopOutcomeRestamps(found) ==
  IF found = <<>> THEN "RoundNotFound"
  ELSE IF found[1].startedAt = None THEN "NotStarted"
  ELSE "ok"

\* rounds.ts:93-103: the outcome the three checks of stopRound give
StopOutcome(found) ==
  IF found = <<>> THEN "RoundNotFound"
  ELSE IF found[1].startedAt = None THEN "NotStarted"
  ELSE IF found[1].endedAt # None THEN "AlreadyEnded"
  ELSE "ok"

\* rounds.ts:93-112: the checks, then the update of endedAt
StopRoundUpdate(task) ==
  /\ task \in InFlight
  /\ task.kind = "stopRound"
  /\ LET id == task.roundId
         found == task.round
         outcome == StopOutcome(found)
     IN /\ IF outcome = "ok"
           THEN rounds' = [rounds EXCEPT ![id].endedAt = NewDate(@)]
           ELSE UNCHANGED rounds
        /\ reply' = [op |-> "stopRound", outcome |-> outcome]
  /\ tasks' = Finish(task)
  /\ UNCHANGED <<sessions, participants, connections, tokenBuffer, ws, sent,
                 accepted, metrics, received,
                 heartbeatInterval, votes, client, runner, snapshot>>

\* ----------------------------------------------------------------- cleanup

KeepRegistry(conns) == conns

\* hub.ts:297: connections.clear()
ClearRegistry(conns) == EmptyMap

\* hub.ts:288-299: cleanup() stops the timer, closes the transport of every
\* connection of the registry and clears the registry and the token buffers
Cleanup ==
  /\ heartbeatInterval' = "cleared"
  /\ ws' = [c \in Conns |-> IF Has(connections, c) /\ ws[c] # "none"
                            THEN "closed" ELSE ws[c]]
  /\ connections' = ClearRegistry(connections)
  /\ tokenBuffer' = EmptyMap
  /\ accepted' = [p \in Pids |-> [r \in TokenRounds |-> <<>>]]
  /\ reply' = NoReply
  \* the cleared buffer no longer holds the arrays of a returned Map
  /\ snapshot' = [snapshot EXCEPT !.refs = {}]
  /\ UNCHANGED <<sessions, rounds, participants, sent, tasks, metrics, received,
                 votes, client, runner>>

\* ------------------------------------------------------------------ client

\* ws.ts:49-52: a GambiarraClient after construction, with the state of the
\* challenge handler the application installs
NewClient ==
  [ws |-> "none", reconnectAttempts |-> 0, timer |-> None,
   phase |-> "idle", round |-> None, seq |-> 0,
   \* history: the frames ws.send transmitted, the reconnection delays
   \* scheduled since the socket was last open, and whether the application
   \* has called disconnect()
   out |-> <<>>, delays |-> <<>>, disconnected |-> FALSE]

\* ws.ts:51-52
maxReconnectAttempts == 5
reconnectDelay == 1000

\* ws.ts:150-154: send(data) transmits on an open socket and drops the frame
\* otherwise
ClientSend(cl, frame) ==
  IF cl.ws = "open" THEN [cl EXCEPT !.out = Append(@, frame)] ELSE cl

\* ws.ts:156-172: attemptReconnect()
AttemptReconnect(cl) ==
  IF cl.reconnectAttempts >= maxReconnectAttempts THEN cl
  ELSE LET attempts == cl.reconnectAttempts + 1
           delay == reconnectDelay * 2 ^ (attempts - 1)
       IN [cl EXCEPT !.reconnectAttempts = attempts, !.timer = delay,
                     !.delays = Append(@, delay)]

\* the register frames the client transmitted
ClientRegisters == {i \in 1..Len(client.out) : client.out[i].type = "register"}

\* ws.ts:58-60: connect() creates the socket; the application calls it once
\* on a new client
ClientConnect ==
  /\ client.ws = "none" /\ client.out = <<>> /\ client.delays = <<>>
  /\ client' = [client EXCEPT !.ws = "connecting"]
  /\ UNCHANGED <<sessions, rounds, participants, connections, tokenBuffer,
                 ws, sent, tasks, accepted, reply, metrics, received,
                 heartbeatInterval, votes, runner, snapshot>>

\* ws.ts:62-76: the socket opens: the attempts are reset and register is sent
ClientOpen ==
  /\ client.ws = "connecting"
  /\ Cardinality(ClientRegisters) < MaxOpens
  /\ client' = ClientSend([client EXCEPT !.ws = "open", !.reconnectAttempts = 0,
                                         !.delays = <<>>],
                          [type |-> "register"])
  /\ UNCHANGED <<sessions, rounds, participants, connections, tokenBuffer,
                 ws, sent, tasks, accepted, reply, metrics, received,
                 heartbeatInterval, votes, runner, snapshot>>

\* ws.ts:174-179: disconnect() closes the socket, if there is one, and
\* forgets it; the close event of a socket that was not closed yet follows
ClientDisconnect ==
  /\ client.ws # "none"
  /\ ~client.disconnected
  /\ client' = [client EXCEPT
                  !.ws = IF @ \in {"connecting", "open"} THEN "closing" ELSE @,
                  !.disconnected = TRUE]
  /\ UNCHANGED <<sessions, rounds, participants, connections, tokenBuffer,
                 ws, sent, tasks, accepted, reply, metrics, received,
                 heartbeatInterval, votes, runner, snapshot>>

\* ws.ts:87-95: the socket closes, after it was open, because the connection
\* attempt failed (`error` is followed by `close`) or after disconnect()
ClientClose ==
  /\ client.ws \in {"connecting", "open", "closing"}
  /\ client' = AttemptReconnect([client EXCEPT !.ws = "closed"])
  /\ UNCHANGED <<sessions, rounds, participants, connections, tokenBuffer,
                 ws, sent, tasks, accepted, reply, metrics, received,
                 heartbeatInterval, votes, runner, snapshot>>

\* ws.ts:167-171: the reconnection timer fires and connect() runs
ClientTimer ==
  /\ client.timer # None
  /\ client' = [client EXCEPT !.timer = None, !.ws = "connecting"]
  /\ UNCHANGED <<sessions, rounds, participants, connections, tokenBuffer,
                 ws, sent, tasks, accepted, reply, metrics, received,
                 heartbeatInterval, votes, runner, snapshot>>

\* ------------------------------------------------------------------ runner

\* ws.ts:295-301: the numbers of words of the MOCK_RESPONSES
ResponseWords == {16, 13, 11, 14}

\* ws.ts:314
MockDefaultMaxTokens == 400

\* no MockRunner.generate is running
NoRun == [phase |-> "idle", maxTokens |-> 0, words |-> 0, i |-> 0, calls |-> 0]

\* ws.ts:314-318: generate(prompt, {maxTokens}, onToken) up to the first loop
StartRun(maxTokens, words) ==
  [phase |-> "words",
   maxTokens |-> IF maxTokens = 0 THEN MockDefaultMaxTokens ELSE maxTokens,
   words |-> words, i |-> 0, calls |-> 0]

WordLoopIgnoresLimit(run) == run.i < run.words

\* ws.ts:320: i < Math.min(maxTokens / 3, words.length)
WordLoopRuns(run) == run.i * 3 < run.maxTokens /\ run.i < run.words

\* ws.ts:329
RemainingTokens(run) == run.maxTokens - run.words * 3

\* ws.ts:222-234 (README.md:532-550): the token callback of the challenge
\* handler: sendToken with the handler's seq, then seq++
OnToken(cl) ==
  [ClientSend(cl, [type |-> "token", round |-> cl.round, seq |-> cl.seq])
     EXCEPT !.seq = @ + 1]

\* the callback the running generate was given: the challenge handler's, or
\* one that only counts (mock.test.ts:17-19)
Callback(cl) == IF cl.phase = "generating" THEN OnToken(cl) ELSE cl

\* mock.test.ts:14-20, 29-36: generate is called with a counting callback
Generate(maxTokens, words) ==
  /\ runner.phase \in {"idle", "done"}
  /\ client.phase = "idle"
  /\ runner' = StartRun(maxTokens, words)
  /\ UNCHANGED <<sessions, rounds, participants, connections, tokenBuffer,
                 ws, sent, tasks, accepted, reply, metrics, received,
                 heartbeatInterval, votes, client, snapshot>>

\* ws.ts:320-326: one turn of the first loop
WordToken ==
  /\ runner.phase = "words"
  /\ WordLoopRuns(runner)
  /\ runner' = [runner EXCEPT !.i = @ + 1, !.calls = @ + 1]
  /\ client' = Callback(client)
  /\ UNCHANGED <<sessions, rounds, participants, connections, tokenBuffer,
                 ws, sent, tasks, accepted, reply, metrics, received,
                 heartbeatInterval, votes, snapshot>>

\* ws.ts:320, 329-330: the first loop ends
WordsEnd ==
  /\ runner.phase = "words"
  /\ ~WordLoopRuns(runner)
  /\ runner' = [runner EXCEPT !.phase = "random", !.i = 0]
  /\ UNCHANGED <<sessions, rounds, participants, connections, tokenBuffer,
                 ws, sent, tasks, accepted, reply, metrics, received,
                 heartbeatInterval, votes, client, snapshot>>

\* ws.ts:330-334: one turn of the second loop
RandomToken ==
  /\ runner.phase = "random"
  /\ RemainingTokens(runner) > 0 /\ runner.i < RemainingTokens(runner)
  /\ runner' = [runner EXCEPT !.i = @ + 1, !.calls = @ + 1]
  /\ client' = Callback(client)
  /\ UNCHANGED <<sessions, rounds, participants, connections, tokenBuffer,
                 ws, sent, tasks, accepted, reply, metrics, received,
                 heartbeatInterval, votes, snapshot>>

\* ws.ts:236-250 (README.md:553-571): sendComplete with tokens: seq
HandlerCompletes(cl) ==
  [ClientSend(cl, [type |-> "complete", round |-> cl.round, tokens |-> cl.seq])
     EXCEPT !.phase = "idle"]

\* ws.ts:329-336: generate resolves; the challenge handler, if it awaits the
\* run, sends complete
RunResolves ==
  /\ runner.phase = "random"
  /\ ~(RemainingTokens(runner) > 0 /\ runner.i < RemainingTokens(runner))
  /\ runner' = [runner EXCEPT !.phase = "done"]
  /\ client' = IF client.phase = "generating" THEN HandlerCompletes(client)
                ELSE client
  /\ UNCHANGED <<sessions, rounds, participants, connections, tokenBuffer,
                 ws, sent, tasks, accepted, reply, metrics, received,
                 heartbeatInterval, votes, snapshot>>

RunnerSteps == WordToken \/ WordsEnd \/ RandomToken \/ RunResolves

\* ------------------------------------------------------- challenge handler

\* the round and the max_tokens of the challenges the client is sent
ChallengeRounds == {1}
ChallengeMaxTokens == {1, 4, 34}

\* ws.ts:99-103, 209-221: a challenge arrives on the open socket; the handler
\* starts with seq = 0 and calls runner.generate
ClientChallenge(round, maxTokens, words) ==
  /\ client.ws = "open"
  /\ client.phase = "idle"
  /\ runner.phase \in {"idle", "done"}
  /\ round > client.round
  /\ client' = [client EXCEPT !.phase = "generating", !.round = round, !.seq = 0]
  /\ runner' = StartRun(maxTokens, words)
  /\ UNCHANGED <<sessions, rounds, participants, connections, tokenBuffer,
                 ws, sent, tasks, accepted, reply, metrics, received,
                 heartbeatInterval, votes, snapshot>>

\* README.md:572-580: generate rejects (a runner that calls a model server
\* can fail); the handler's catch block sends error GENERATION_FAILED
GenerationFails ==
  /\ client.phase = "generating"
  /\ runner.phase \in {"words", "random"}
  /\ runner' = [runner EXCEPT !.phase = "done"]
  /\ client' = [ClientSend(client, [type |-> "error", round |-> client.round,
                                     code |-> "GENERATION_FAILED"])
                  EXCEPT !.phase = "idle"]
  /\ UNCHANGED <<sessions, rounds, participants, connections, tokenBuffer,
                 ws, sent, tasks, accepted, reply, metrics, received,
                 heartbeatInterval, votes, snapshot>>

\* ---------------------------------------------------------------- complete

\* the complete frames the clients send
CompleteRounds == {1}
CompleteTokens == {0, 3}
Durations == {-1, 0, 1000}

CompleteMessages ==
  [type : {"complete"}, participant_id : Pids, round : CompleteRounds,
   tokens : CompleteTokens, duration_ms : Durations]

\* a / b and q * k on the rationals, a rational being <<numerator, denominator>>
Divide(a, b) == <<a, b>>

Times(q, k) == <<q[1] * k, q[2]>>

TpsAvgPerMs(message) ==
  IF message.duration_ms > 0
  THEN Divide(message.tokens, message.duration_ms)
  ELSE <<>>

\* hub.ts:187-189: tokens per second, <<>> for null
TpsAvg(message) ==
  IF message.duration_ms > 0
  THEN Times(Divide(message.tokens, message.duration_ms), 1000)
  ELSE <<>>

\* hub.ts:198-213: the fields `create` and `update` store
MetricsRow(message) ==
  [tokens |-> message.tokens, durationMs |-> message.duration_ms,
   tpsAvg |-> TpsAvg(message)]

\* hub.ts:222-228
CompletionFrame(message) ==
  [type |-> "completion", participant_id |-> message.participant_id,
   round |-> message.round, tokens |-> message.tokens,
   duration_ms |-> message.duration_ms]

\* hub.ts:175-180: prisma.round.findFirst({where: {index}}) has no orderBy:
\* any round that carries the index may be the one returned
RoundsWithIndex(index) == {i \in 1..Len(rounds) : rounds[i].index = index}

\* hub.ts:173-185: a complete frame arrives on c; the handler looks the round
\* up and returns if there is none
CompleteFind(c, message) ==
  /\ ws[c] = "open"
  /\ received' = MapSet(received, <<message.round, message.participant_id>>,
                        message)
  /\ IF RoundsWithIndex(message.round) = {}
     THEN UNCHANGED tasks
     ELSE /\ CanSpawn
          /\ \E id \in RoundsWithIndex(message.round) :
               tasks' = Spawn([kind |-> "complete", pc |-> "found", conn |-> c,
                               msg |-> message, roundId |-> id])
  /\ reply' = NoReply
  /\ UNCHANGED <<sessions, rounds, participants, connections, tokenBuffer,
                 ws, sent, accepted, metrics,
                 heartbeatInterval, votes, client, runner, snapshot>>

\* the rejection leaves handleComplete and reaches the catch block of the
\* message handler (hub.ts:42-45), which answers the sender
CompleteRethrown(out, c) == RejectFrame(out, c)

\* hub.ts:229-231: the catch block of handleComplete logs the rejection and
\* returns; nothing is written to the sender c
CompleteFailure(out, c) == out

\* hub.ts:187-228: the metrics upsert, keyed by (roundId, participantId), and
\* the completion event; Metrics refers to its Participant (rounds.ts:127-130),
\* so the upsert rejects for a participant that is not stored and the catch
\* block (hub.ts:229-231) logs it
CompleteUpsert(task) ==
  /\ task \in InFlight
  /\ task.kind = "complete"
  /\ LET message == task.msg
         key == <<task.roundId, message.participant_id>>
     IN IF Has(participants, message.participant_id)
        THEN /\ metrics' = MapSet(metrics, key, MetricsRow(message))
             /\ sent' = BroadcastToTelao(sent, connections, CompletionFrame(message))
        ELSE /\ metrics' = metrics
             /\ sent' = CompleteFailure(sent, task.conn)
  /\ tasks' = Finish(task)
  /\ reply' = NoReply
  /\ UNCHANGED <<sessions, rounds, participants, connections, tokenBuffer,
                 ws, accepted, received,
                 heartbeatInterval, votes, client, runner, snapshot>>

\* hub.ts:190, 229-231: the store rejects the upsert (it is unreachable, or
\* the write fails); the catch block logs it
CompleteUpsertRejects(task) ==
  /\ task \in InFlight
  /\ task.kind = "complete"
  /\ sent' = CompleteFailure(sent, task.conn)
  /\ tasks' = Finish(task)
  /\ reply' = NoReply
  /\ UNCHANGED <<sessions, rounds, participants, connections, tokenBuffer,
                 ws, accepted, metrics, received,
                 heartbeatInterval, votes, client, runner, snapshot>>

\* -------------------------------------------------------------------- kick

\* routes:253-262: POST /participants/kick deletes the Participant row; the
\* delete rejects when there is no such row
Kick(p) ==
  /\ participants' = IF Has(participants, p) THEN MapDelete(participants, p)
                     ELSE participants
  /\ reply' = [op |-> "kick",
               outcome |-> IF Has(participants, p) THEN "ok" ELSE "NotFound"]
  /\ UNCHANGED <<sessions, rounds, connections, tokenBuffer, ws, sent, tasks,
                 accepted, metrics, received, heartbeatInterval, votes,
                 client, runner, snapshot>>

\* ------------------------------------------------------------------- votes

\* the network origins that vote (routes:234, voterId = request.ip)
Voters == {"v1", "v2", "v3"}

\* the scores sent, as rationals: 0, 1, 4, 5, 6 and 2.5
Scores == {<<0, 1>>, <<1, 1>>, <<4, 1>>, <<5, 1>>, <<6, 1>>, <<5, 2>>}

\* the rationals, denominators positive
Less(q, r) == q[1] * r[2] < r[1] * q[2]

Same(q, r) == q[1] * r[2] = r[1] * q[2]

Plus(q, r) == <<q[1] * r[2] + r[1] * q[2], q[2] * r[2]>>

Over(q, k) == <<q[1], q[2] * k>>

IsInteger(q) == q[1] % q[2] = 0

\* routes:30-34: score: z.number().min(1).max(5)
CastVoteSchemaAccepts(score) == ~Less(score, <<1, 1>>) /\ ~Less(<<5, 1>>, score)

ScoreInRange(score) == ~Less(score, <<1, 1>>) /\ ~Less(<<5, 1>>, score)

\* castVote: the score must be an integer in [1,5]
ScoreValid(score) ==
  IsInteger(score) /\ ~Less(score, <<1, 1>>) /\ ~Less(<<5, 1>>, score)

\* castVote: a second vote of the same (voter, round, participant) overwrites
RecordVote(vs, voter, roundId, participantId, score) ==
  MapSet(vs, <<roundId, voter, participantId>>, score)

\* castVote: its outcome for a score and a round
CastVoteOutcome(roundId, score) ==
  IF ~ScoreValid(score) THEN "InvalidScore"
  ELSE IF roundId \notin 1..Len(rounds) THEN "RoundNotFound"
  ELSE "ok"

\* routes:230-244: POST /votes parses the body and calls castVote with the
\* caller's address as the voter
CastVote(voter, roundId, participantId, score) ==
  LET outcome == IF CastVoteSchemaAccepts(score)
                 THEN CastVoteOutcome(roundId, score)
                 ELSE "ValidationError"
  IN /\ votes' = IF outcome = "ok"
                 THEN RecordVote(votes, voter, roundId, participantId, score)
                 ELSE votes
     /\ reply' = [op |-> "castVote", outcome |-> outcome, score |-> score]
     /\ UNCHANGED <<sessions, rounds, participants, connections, tokenBuffer,
                    ws, sent, tasks, accepted, metrics, received,
                    heartbeatInterval, client, runner, snapshot>>

\* the voters whose vote for p counts in the round
VotersOf(vs, roundId, p) == {v \in Voters : Has(vs, <<roundId, v, p>>)}

RECURSIVE SumScores(_, _, _, _)
SumScores(vs, roundId, p, voters) ==
  IF voters = {} THEN <<0, 1>>
  ELSE LET v == CHOOSE w \in voters : TRUE
       IN Plus(vs[<<roundId, v, p>>], SumScores(vs, roundId, p, voters \ {v}))

\* getScoreboard: voteCount, avgScore and totalScore = avgScore x voteCount
\* of one participant
ScoreboardEntry(vs, roundId, p) ==
  LET voters == VotersOf(vs, roundId, p)
      voteCount == Cardinality(voters)
      avgScore == IF voteCount = 0 THEN <<0, 1>>
                  ELSE Over(SumScores(vs, roundId, p, voters), voteCount)
  IN [participantId |-> p, voteCount |-> voteCount, avgScore |-> avgScore,
      totalScore |-> Times(avgScore, voteCount)]

\* the order of the participant identities
PidRank == "p1" :> 1 @@ "p2" :> 2

BeforeByAverage(a, b) ==
  \/ Less(b.avgScore, a.avgScore)
  \/ /\ Same(a.avgScore, b.avgScore)
     /\ PidRank[a.participantId] < PidRank[b.participantId]

\* getScoreboard: descending by totalScore, ties by avgScore, then by
\* participant identity
ScoreboardBefore(a, b) ==
  \/ Less(b.totalScore, a.totalScore)
  \/ /\ Same(a.totalScore, b.totalScore)
     /\ \/ Less(b.avgScore, a.avgScore)
        \/ /\ Same(a.avgScore, b.avgScore)
           /\ PidRank[a.participantId] < PidRank[b.participantId]

\* getScoreboard: the entries of the participants with a vote or a metrics
\* record in the round, in the scoreboard's order
Scoreboard(vs, ms, roundId) ==
  LET ranked == {p \in Pids : \/ VotersOf(vs, roundId, p) # {}
                              \/ Has(ms, <<roundId, p>>)}
      entries == {ScoreboardEntry(vs, roundId, p) : p \in ranked}
  IN CHOOSE board \in [1..Cardinality(entries) -> entries] :
       \A i, j \in 1..Cardinality(entries) :
         i < j => ScoreboardBefore(board[i], board[j])

\* routes:116: voteManager.getScoreboard(round.id)
GetScoreboard(roundId) ==
  /\ roundId \in 1..Len(rounds)
  /\ reply' = [op |-> "getScoreboard", outcome |-> "ok", roundId |-> roundId,
               board |-> Scoreboard(votes, metrics, roundId)]
  /\ UNCHANGED <<sessions, rounds, participants, connections, tokenBuffer,
                 ws, sent, tasks, accepted, metrics, received,
                 heartbeatInterval, votes, client, runner, snapshot>>

\* ----------------------------------------------------------- specification

\* the hub's timer runs, no vote was cast, the client and the runner are new
Elsewhere ==
  /\ heartbeatInterval = "set"
  /\ votes = EmptyMap
  /\ client = NewClient
  /\ runner = NoRun
  /\ snapshot = NoSnapshot


Init ==
  /\ sessions = <<>>
  /\ rounds = <<>>
  /\ participants = EmptyMap
  /\ connections = EmptyMap
  /\ tokenBuffer = EmptyMap
  /\ ws = [c \in Conns |-> "none"]
  /\ sent = [c \in Conns |-> <<>>]
  /\ tasks = EmptyBag
  /\ accepted = [p \in Pids |-> [r \in TokenRounds |-> <<>>]]
  /\ reply = NoReply
  /\ metrics = EmptyMap
  /\ received = EmptyMap
  /\ Elsewhere

ConnectionSteps ==
  \/ \E c \in Conns : Connect(c)
  \/ \E c \in Conns : Close(c)

TokenSteps == \E c \in Conns, m \in TokenMessages : ReceiveToken(c, m)

SessionSteps ==
  \/ CreateSessionEnd
  \/ \E task \in InFlight : CreateSessionCreate(task)

RegisterSteps ==
  \/ \E c \in Conns, m \in RegisterMessages : RegisterFind(c, m)
  \/ \E task \in InFlight : RegisterDecide(task)
  \/ \E task \in InFlight : RegisterUpsertThrows(task)
  \/ \E task \in InFlight : RegisterFinish(task)

RoundSteps ==
  \/ \E ps \in RoundParams : RoundsRouteFind(ps)
  \/ \E task \in InFlight : CreateRoundRead(task)
  \/ \E task \in InFlight : CreateRoundWrite(task)
  \/ \E id \in RoundIds : StartRoundFind(id)
  \/ \E task \in InFlight : StartRoundUpdate(task)
  \/ \E task \in InFlight : StartRoundBroadcast(task)
  \/ \E id \in RoundIds : StopRoundFind(id)
  \/ \E task \in InFlight : StopRoundUpdate(task)

CompleteSteps ==
  \/ \E c \in Conns, m \in CompleteMessages : CompleteFind(c, m)
  \/ \E task \in InFlight : CompleteUpsert(task)

\* the whole server
Next ==
  \/ ConnectionSteps \/ TokenSteps \/ SessionSteps \/ RegisterSteps \/ RoundSteps
  \/ CompleteSteps

Spec == Init /\ [][Next]_vars

\* registration, from an empty database
NextRegister == ConnectionSteps \/ SessionSteps \/ RegisterSteps

SpecRegister == Init /\ [][NextRegister]_vars

\* the state once session 1 is active and the registrations have left `registry`
Registered(registry) ==
  /\ sessions = <<[status |-> "active", pin |-> SessionPins[1]]>>
  /\ rounds = <<>>
  /\ connections = registry
  /\ participants = [p \in {registry[c].participantId : c \in DOMAIN registry}
                       |-> [sessionId |-> 1]]
  /\ tokenBuffer = EmptyMap
  /\ ws = [c \in Conns |-> "open"]
  /\ sent = [c \in Conns |-> IF Has(registry, c) THEN <<RegisteredFrame(1)>> ELSE <<>>]
  /\ tasks = EmptyBag
  /\ accepted = [p \in Pids |-> [r \in TokenRounds |-> <<>>]]
  /\ reply = NoReply
  /\ metrics = EmptyMap
  /\ received = EmptyMap
  /\ Elsewhere

\* c1 has registered as p1 in session 1; c2 is connected and has not registered
InitRegistered == Registered("c1" :> [participantId |-> "p1", sessionId |-> 1])

\* the hub's token traffic
NextHub == (\E c \in Conns : Close(c)) \/ TokenSteps

SpecHub == InitRegistered /\ [][NextHub]_vars

\* the control plane
NextRounds == (\E c \in Conns : Close(c)) \/ RoundSteps

SpecRounds == InitRegistered /\ [][NextRounds]_vars

\* the control plane when the operator sends one request at a time
NextRoundsSerial == NextRounds /\ BagCardinality(tasks') <= 1

SpecRoundsSerial == InitRegistered /\ [][NextRoundsSerial]_vars

\* the token frames of p1 for round 1
StreamTokens == {m \in TokenMessages : m.participant_id = "p1" /\ m.round = 1}

\* malformed frames among the registers and the tokens of one stream
NextFrames ==
  \/ \E c \in Conns : Close(c)
  \/ \E c \in Conns, data \in RawFrames : ReceiveInvalid(c, data)
  \/ \E c \in Conns, m \in StreamTokens : ReceiveToken(c, m)
  \/ RegisterSteps

SpecFrames == InitRegistered /\ [][NextFrames]_vars

\* c1 has registered as p1 in session 1 and round 1 was created, not started
InitRoundCreated ==
  /\ sessions = <<[status |-> "active", pin |-> SessionPins[1]]>>
  /\ rounds = <<NewRound(1, NextIndex(0), [prompt |-> "p", maxTokens |-> 10])>>
  /\ connections = "c1" :> [participantId |-> "p1", sessionId |-> 1]
  /\ participants = "p1" :> [sessionId |-> 1]
  /\ tokenBuffer = EmptyMap
  /\ ws = [c \in Conns |-> "open"]
  /\ sent = [c \in Conns |-> IF c = "c1" THEN <<RegisteredFrame(1)>> ELSE <<>>]
  /\ tasks = EmptyBag
  /\ accepted = [p \in Pids |-> [r \in TokenRounds |-> <<>>]]
  /\ reply = [op |-> "createRound", outcome |-> "ok"]
  /\ metrics = EmptyMap
  /\ received = EmptyMap
  /\ Elsewhere

\* registrations while the round is started
NextJoin ==
  \/ \E c \in Conns : Close(c)
  \/ RegisterSteps
  \/ \E id \in RoundIds : StartRoundFind(id)
  \/ \E task \in InFlight : StartRoundUpdate(task)
  \/ \E task \in InFlight : StartRoundBroadcast(task)

SpecJoin == InitRoundCreated /\ [][NextJoin]_vars

\* rounds created while sessions are replaced
NextSessionRounds ==
  \/ SessionSteps
  \/ \E ps \in RoundParams : RoundsRouteFind(ps)
  \/ \E task \in InFlight : CreateRoundRead(task)
  \/ \E task \in InFlight : CreateRoundWrite(task)

SpecSessionRounds == InitRegistered /\ [][NextSessionRounds]_vars

\* the hub from its construction to cleanup() and after
NextLifecycle ==
  \/ \E c \in Conns : Close(c)
  \/ \E ts \in Timestamps : Heartbeat(ts)
  \/ Cleanup
  \/ \E c \in Conns, m \in StreamTokens : ReceiveToken(c, m)
  \/ RegisterSteps

SpecLifecycle == InitRegistered /\ [][NextLifecycle]_vars

\* round 1 of session 1 was created with the parameters `params` and started
RoundStarted(params) ==
  LET round == NewRound(1, NextIndex(0), params)
  IN /\ sessions = <<[status |-> "active", pin |-> SessionPins[1]]>>
     /\ rounds = <<[round EXCEPT !.startedAt = NewDate(@)]>>
     /\ connections = "c1" :> [participantId |-> "p1", sessionId |-> 1]
     /\ participants = "p1" :> [sessionId |-> 1]
     /\ tokenBuffer = EmptyMap
     /\ ws = [c \in Conns |-> "open"]
     /\ sent = [c \in Conns |-> IF c = "c1"
                               THEN <<RegisteredFrame(1), Challenge(round)>>
                               ELSE <<>>]
     /\ tasks = EmptyBag
     /\ accepted = [p \in Pids |-> [r \in TokenRounds |-> <<>>]]
     /\ reply = [op |-> "startRound", outcome |-> "ok"]
     /\ metrics = EmptyMap
     /\ received = EmptyMap
     /\ Elsewhere

InitRoundStarted == RoundStarted([prompt |-> "p", maxTokens |-> 10])

\* the completes of a started round
NextMetrics == (\E c \in Conns : Close(c)) \/ CompleteSteps

SpecMetrics == InitRoundStarted /\ [][NextMetrics]_vars

\* the complete frames of p1
StreamCompletes == {m \in CompleteMessages : m.participant_id = "p1"}

\* the completes of a started round when the store may fail, beside the
\* tokens of one stream
NextPersist ==
  \/ \E c \in Conns : Close(c)
  \/ \E c \in Conns, m \in StreamCompletes : CompleteFind(c, m)
  \/ \E task \in InFlight : CompleteUpsert(task)
  \/ \E task \in InFlight : CompleteUpsertRejects(task)
  \/ \E c \in Conns, m \in StreamTokens : ReceiveToken(c, m)

SpecPersist == InitRoundStarted /\ [][NextPersist]_vars

\* the votes of a started round and its scoreboard
NextVotes ==
  \/ \E v \in Voters, id \in RoundIds, p \in Pids, score \in Scores :
       CastVote(v, id, p, score)
  \/ \E id \in RoundIds : GetScoreboard(id)

SpecVotes == InitRoundStarted /\ [][NextVotes]_vars

\* MockRunner.generate under test
NextMock ==
  \/ \E maxTokens \in 1..MaxMaxTokens, words \in ResponseWords :
       Generate(maxTokens, words)
  \/ RunnerSteps

SpecMock == Init /\ [][NextMock]_vars

\* a client: its socket, its reconnections and its challenge handler
NextClient ==
  \/ ClientConnect \/ ClientOpen \/ ClientClose \/ ClientTimer
  \/ \E round \in ChallengeRounds, maxTokens \in ChallengeMaxTokens, words \in ResponseWords :
       ClientChallenge(round, maxTokens, words)
  \/ RunnerSteps
  \/ GenerationFails

SpecClient == Init /\ [][NextClient]_vars

\* a client whose application calls disconnect()
NextDisconnect == NextClient \/ ClientDisconnect

SpecDisconnect == Init /\ [][NextDisconnect]_vars

\* getCurrentRoundTokens beside the token traffic
NextSnapshot ==
  \/ TokenSteps
  \/ \E r \in TokenRounds : GetSnapshot(r)

SpecSnapshot == InitRegistered /\ [][NextSnapshot]_vars

\* the token traffic while sessions are replaced
NextSessionTokens ==
  \/ SessionSteps
  \/ TokenSteps

SpecSessionTokens == InitRegistered /\ [][NextSessionTokens]_vars

\* registration after the session of a stored participant is replaced
NextReRegister ==
  \/ \E c \in Conns : Close(c)
  \/ SessionSteps
  \/ RegisterSteps

SpecReRegister == InitRegistered /\ [][NextReRegister]_vars

\* session 1 has ended with its round 1 stopped; c1 has registered as p1 in
\* session 2, whose round 1 has started
InitSecondSession ==
  LET first == NewRound(1, NextIndex(0), [prompt |-> "p"])
      second == NewRound(2, NextIndex(0), [prompt |-> "q"])
  IN /\ sessions = <<[status |-> "ended", pin |-> SessionPins[1]],
                     [status |-> "active", pin |-> SessionPins[2]]>>
     /\ rounds = <<[first EXCEPT !.startedAt = NewDate(@), !.endedAt = NewDate(@)],
                   [second EXCEPT !.startedAt = NewDate(@)]>>
     /\ connections = "c1" :> [participantId |-> "p1", sessionId |-> 2]
     /\ participants = "p1" :> [sessionId |-> 2]
     /\ tokenBuffer = EmptyMap
     /\ ws = [c \in Conns |-> "open"]
     /\ sent = [c \in Conns |-> IF c = "c1"
                               THEN <<RegisteredFrame(2), Challenge(second)>>
                               ELSE <<>>]
     /\ tasks = EmptyBag
     /\ accepted = [p \in Pids |-> [r \in TokenRounds |-> <<>>]]
     /\ reply = [op |-> "startRound", outcome |-> "ok"]
     /\ metrics = EmptyMap
     /\ received = EmptyMap
     /\ Elsewhere

\* the completes of p1 when two sessions hold a round of the same index
NextSecondSession ==
  \/ \E c \in Conns : Close(c)
  \/ \E c \in Conns, m \in StreamCompletes : CompleteFind(c, m)
  \/ \E task \in InFlight : CompleteUpsert(task)

SpecSecondSession == InitSecondSession /\ [][NextSecondSession]_vars

\* c1 has registered as p1 and c2 as p2, both in session 1
InitAllRegistered ==
  Registered([c \in Conns |-> [participantId |-> IF c = "c1" THEN "p1" ELSE "p2",
                               sessionId |-> 1]])

\* the broadcast of challenges, over transports that may fail
NextBroadcast ==
  \/ \E c \in Conns : Fault(c)
  \/ \E c \in Conns : Close(c)
  \/ \E ps \in RoundParams : RoundsRouteFind(ps)
  \/ \E task \in InFlight : CreateRoundRead(task)
  \/ \E task \in InFlight : CreateRoundWrite(task)
  \/ \E id \in RoundIds : StartRoundFind(id)
  \/ \E task \in InFlight : StartRoundUpdate(task)
  \/ \E task \in InFlight : StartRoundBroadcast(task)

SpecBroadcast == InitAllRegistered /\ [][NextBroadcast]_vars

\* the heartbeat over transports that may fail, beside the tokens of one
\* stream; the 30 s timer keeps ticking (hub.ts:259-266), the transports
\* fail and close as the network decides
NextFaults ==
  \/ \E c \in Conns : Fault(c)
  \/ \E c \in Conns : Close(c)
  \/ \E ts \in Timestamps : Heartbeat(ts)
  \/ \E c \in Conns, m \in StreamTokens : ReceiveToken(c, m)

SpecFaults ==
  /\ InitAllRegistered
  /\ [][NextFaults]_vars
  /\ WF_vars(\E ts \in Timestamps : Heartbeat(ts))

\* the operator kicks participants while they stream and the timer ticks
NextKick ==
  \/ \E c \in Conns : Close(c)
  \/ \E p \in Pids : Kick(p)
  \/ \E ts \in Timestamps : Heartbeat(ts)
  \/ \E c \in Conns, m \in StreamTokens : ReceiveToken(c, m)

SpecKick == InitAllRegistered /\ [][NextKick]_vars

\* ================================================================== claims

Keys == Pids \X TokenRounds

Grew(p, r) ==
  Len(Stream(tokenBuffer', p, r)) > Len(Stream(tokenBuffer, p, r))

\* C1: for every (participant, round) a token frame is appended iff its seq
\* is the current length of that stream; so every stream holds exactly the
\* contents of the pushed frames, whose seqs are 0, 1, ..., len-1 in that
\* order, and getCurrentRoundTokens(round) returns those fragments in order.
C1_ContiguousStreams ==
  /\ \A m \in TokenMessages :
       LET before == Stream(tokenBuffer, m.participant_id, m.round)
           after == Stream(HandleTokenBuffer(tokenBuffer, m),
                           m.participant_id, m.round)
       IN IF m.seq = Len(before) THEN after = Append(before, m.content)
          ELSE after = before
  /\ \A p \in Pids, r \in TokenRounds :
       LET tokens == Stream(tokenBuffer, p, r)
           pushed == accepted[p][r]
       IN /\ Len(tokens) = Len(pushed)
          /\ \A i \in 1..Len(pushed) :
               pushed[i].seq = i - 1 /\ tokens[i] = pushed[i].content
          /\ tokens # <<>> =>
               /\ Has(GetCurrentRoundTokens(tokenBuffer, r), p)
               /\ GetCurrentRoundTokens(tokenBuffer, r)[p]
                    = [i \in 1..Len(pushed) |-> pushed[i].content]

\* C1's case: seq 0 and 1 of p1's round 1 were pushed, with different contents
C1_Witness ==
  /\ Stream(tokenBuffer, "p1", 1) = <<"a", "b">>
  /\ GetCurrentRoundTokens(tokenBuffer, 1)["p1"] = <<"a", "b">>
  /\ accepted["p1"][1][2].seq = 1

\* C2: a token frame whose seq is not the expected index is discarded without
\* mutating state: in a step that lengthens no stream, getCurrentRoundTokens
\* returns for every round the mapping it returned before.
C2_DiscardKeepsSnapshot ==
  [][(\A k \in Keys : ~Grew(k[1], k[2])) =>
       \A r \in TokenRounds :
         GetCurrentRoundTokens(tokenBuffer', r) = GetCurrentRoundTokens(tokenBuffer, r)]_vars

\* C3: a token is appended only if it arrived on a connection bound to the
\* participant it names; so a stream of p is lengthened only while some open
\* connection of the registry is bound to p.
C3_AppendOnlyWhenBound ==
  [][\A k \in Keys :
       Grew(k[1], k[2]) =>
         \E c \in DOMAIN connections :
           connections[c].participantId = k[1] /\ ws[c] = "open"]_vars

\* a handler that was in flight and took this step
Stepped(task) == CopiesIn(task, tasks') < CopiesIn(task, tasks)

\* the frames this step wrote to the transport of c
Written(c) == SubSeq(sent'[c], Len(sent[c]) + 1, Len(sent'[c]))

\* C4: a `registered` reply is written only by a register handler that found
\* an active session and a matching PIN; it is the handler's only reply, it
\* carries the id of the session the handler found active, and when it is
\* written the Participant is stored and the registry binds the connection
\* to (participant_id, that session).
C4_RegisteredAfterBinding ==
  [][\A c \in Conns :
       (\E i \in 1..Len(Written(c)) : Written(c)[i].type = "registered") =>
         \E task \in InFlight :
           /\ task.kind = "register" /\ task.conn = c
           /\ tasks' = Finish(task)
           /\ task.session \in task.active
           /\ \A other \in task.active : other <= task.session
           /\ task.msg.pin = sessions[task.session].pin
           /\ Written(c) = <<RegisteredFrame(task.session)>>
           /\ Has(participants', task.msg.participant_id)
           /\ Has(connections', c)
           /\ connections'[c] = [participantId |-> task.msg.participant_id,
                                 sessionId |-> task.session]]_vars

\* C4's case: c1 re-registered as p2 and was answered `registered` twice,
\* each after its binding
C4_Witness ==
  /\ Len(sent["c1"]) = 2
  /\ \A i \in 1..2 : sent["c1"][i] = RegisteredFrame(1)
  /\ Has(connections, "c1") /\ connections["c1"].participantId = "p2"
  /\ Has(participants, "p1") /\ Has(participants, "p2")

\* the register handlers stopped after the session lookup that will be refused
Refused(task) ==
  /\ task.kind = "register" /\ task.pc = "found"
  /\ RegisterRefusal(task.msg, task.session) # ""

\* C5: a register that found no active session is answered
\* error("No active session"), one whose PIN does not verify
\* error("Invalid PIN"); the step upserts no Participant, leaves the registry
\* as it was (an unbound connection stays unbound) and writes no `registered`;
\* and the two errors are written for no other register, so a later register
\* with the correct PIN is not refused.
C5_RefusedRegister ==
  [][/\ \A task \in InFlight :
          Refused(task) /\ Stepped(task) =>
            /\ Written(task.conn) =
                 <<ErrorFrame(IF task.session = None THEN "No active session"
                              ELSE "Invalid PIN")>>
            /\ participants' = participants
            /\ connections' = connections
            /\ tasks' = Finish(task)
     /\ \A task \in BagToSet(tasks') :
          task.kind = "register" /\ task.pc = "upserted" =>
            task.session # None /\ task.msg.pin = sessions[task.session].pin
     /\ \A c \in Conns : \A i \in 1..Len(Written(c)) :
          Written(c)[i] \in {ErrorFrame("No active session"), ErrorFrame("Invalid PIN")} =>
            \E task \in InFlight : Refused(task) /\ Stepped(task) /\ task.conn = c]_vars

\* C5's case: c1 was refused for its PIN and then registered with the right one
C5_Witness ==
  /\ sent["c1"] = <<ErrorFrame("Invalid PIN"), RegisteredFrame(1)>>
  /\ Has(connections, "c1")

StartTasks == {task \in InFlight : task.kind = "startRound"}

StopTasks == {task \in InFlight : task.kind = "stopRound"}

\* the lifecycle state of the round the handler read, "none" if it read none
Seen(task) == IF task.round = <<>> THEN "none" ELSE RoundState(task.round[1])

\* C6: startRound on a round that is not pending (active or ended when the
\* call reads it) fails with AlreadyStarted, broadcasts no challenge and
\* leaves every round, with its timestamps, as it was.
C6_StartNotPending ==
  [][\A task \in StartTasks :
       task.pc = "found" /\ Seen(task) \in {"active", "ended"} /\ Stepped(task) =>
         /\ reply' = [op |-> "startRound", outcome |-> "AlreadyStarted"]
         /\ tasks' = Finish(task)
         /\ rounds' = rounds
         /\ sent' = sent]_vars

\* C6's case: the only round was started, stopped, and started again while
\* c1 was still registered
C6_Witness ==
  /\ reply = [op |-> "startRound", outcome |-> "AlreadyStarted"]
  /\ Len(rounds) = 1 /\ RoundState(rounds[1]) = "ended"
  /\ Has(connections, "c1")

\* the row `round` with the start timestamp rewritten
Restarted(old, new) ==
  /\ new.startedAt # None /\ new.startedAt # old.startedAt
  /\ new = [old EXCEPT !.startedAt = new.startedAt]

\* C7: startRound on a pending round records the start timestamp, so that the
\* round is active, and then writes one challenge, carrying the round's
\* session_id, index, prompt, max_tokens, temperature, deadline_ms and seed,
\* to every connection that is in the registry at that moment, and to no other.
C7_StartBroadcasts ==
  [][\A task \in StartTasks :
       Seen(task) = "pending" /\ Stepped(task) =>
         LET id == task.roundId
             row == rounds[id]
         IN \/ /\ task.pc = "found"
               /\ tasks' = Continue(task, [task EXCEPT !.pc = "updated"])
               /\ Restarted(row, rounds'[id])
               /\ RoundState(row) = "pending" => RoundState(rounds'[id]) = "active"
               /\ \A other \in 1..Len(rounds) : other # id => rounds'[other] = rounds[other]
               /\ sent' = sent
            \/ /\ task.pc = "updated"
               /\ tasks' = Finish(task)
               /\ reply' = [op |-> "startRound", outcome |-> "ok"]
               /\ rounds' = rounds
               /\ \A c \in Conns :
                    Written(c) =
                      IF Has(connections, c)
                      THEN <<[type |-> "challenge", session_id |-> row.sessionId,
                              round |-> row.index, prompt |-> row.prompt,
                              max_tokens |-> row.maxTokens,
                              temperature |-> row.temperature,
                              deadline_ms |-> row.deadlineMs, seed |-> row.seed]>>
                      ELSE <<>>]_vars

\* C7's case: round 1, prompt "p" and 10 tokens, was started: c1, registered,
\* was sent its challenge and c2, unregistered, nothing
C7_Witness ==
  /\ reply = [op |-> "startRound", outcome |-> "ok"]
  /\ Len(rounds) >= 1 /\ RoundState(rounds[1]) = "active"
  /\ Len(sent["c1"]) = 2
  /\ sent["c1"][2].type = "challenge" /\ sent["c1"][2].round = 1
  /\ sent["c1"][2].prompt = "p" /\ sent["c1"][2].max_tokens = 10
  /\ sent["c2"] = <<>>

\* C8: stopRound fails with NotStarted on a pending round and with
\* AlreadyEnded on an ended one, changing nothing; on an active round it
\* records the end timestamp and the round is ended.  Ended is terminal: only
\* a call that read the round before it ended can still change its row.
C8_StopAndTerminal ==
  [][/\ \A task \in StopTasks :
          Stepped(task) /\ Seen(task) # "none" =>
            LET id == task.roundId
            IN /\ tasks' = Finish(task)
               /\ sent' = sent
               /\ Seen(task) = "pending" =>
                    /\ reply' = [op |-> "stopRound", outcome |-> "NotStarted"]
                    /\ rounds' = rounds
               /\ Seen(task) = "ended" =>
                    /\ reply' = [op |-> "stopRound", outcome |-> "AlreadyEnded"]
                    /\ rounds' = rounds
               /\ Seen(task) = "active" =>
                    /\ reply' = [op |-> "stopRound", outcome |-> "ok"]
                    /\ rounds'[id].endedAt # None
                    /\ rounds'[id].endedAt # rounds[id].endedAt
                    /\ rounds' = [rounds EXCEPT ![id].endedAt = rounds'[id].endedAt]
                    /\ RoundState(rounds'[id]) = "ended"
     /\ \A id \in 1..Len(rounds) :
          RoundState(rounds[id]) = "ended" /\ rounds'[id] # rounds[id] =>
            \E task \in StartTasks \cup StopTasks :
              /\ task.roundId = id /\ task.pc = "found" /\ Stepped(task)
              /\ Seen(task) \in {"pending", "active"}]_vars

\* C8's case: a stop of the ended round 1 was refused
C8_Witness ==
  /\ reply = [op |-> "stopRound", outcome |-> "AlreadyEnded"]
  /\ Len(rounds) = 1 /\ RoundState(rounds[1]) = "ended"

\* C9: every session has at most one active round (started and not ended).
C9_OneActiveRound ==
  \A s \in SessionIds : Cardinality(OpenRounds(s)) <= 1

\* C10: the rounds of one session carry the indexes 1, 2, 3, ... in creation
\* order: no two of them share an index.
C10_IndexesInOrder ==
  \A s \in SessionIds :
    \A i \in RoundsOf(s) :
      rounds[i].index = Cardinality({j \in RoundsOf(s) : j <= i})

\* C11: a write that throws on one connection of the registry does not stop a
\* broadcast: the start of a round still writes its challenge exactly once to
\* every other connection of the registry, and the start itself succeeds.
C11_BroadcastIsolatesFailure ==
  [][\A task \in StartTasks :
       task.pc = "updated" /\ Stepped(task) =>
         /\ reply' = [op |-> "startRound", outcome |-> "ok"]
         /\ \A c \in DOMAIN connections :
              ws[c] # "faulty" => Written(c) = <<Challenge(task.round[1])>>]_vars

\* C11's case: a round was started while c2, in the registry, was failing: c1
\* was sent the challenge and c2 nothing
C11_Witness ==
  /\ reply = [op |-> "startRound", outcome |-> "ok"]
  /\ Has(connections, "c1") /\ Has(connections, "c2")
  /\ ws["c2"] = "faulty"
  /\ Len(sent["c1"]) = 2 /\ sent["c1"][2].type = "challenge"
  /\ sent["c2"] = <<RegisteredFrame(1)>>

\* C12: once every handler has run, the registry holds entries only for
\* connections whose transport is open.
C12_RegistryOnlyOpen ==
  tasks = EmptyBag => \A c \in DOMAIN connections : ws[c] = "open"

\* C13: at most one session is active; and when a create-session request has
\* completed, the session it created is active and every other one is ended.
C13_OneActiveSession ==
  /\ Cardinality(ActiveSessions) <= 1
  /\ reply = [op |-> "createSession", outcome |-> "ok"] =>
       ActiveSessions = {Len(sessions)}

\* C14: every accepted token is delivered as a token_update, carrying its
\* participant, round, seq, content and the new stream length, to every
\* connection of the registry; and every recorded complete as a completion.
C14_EventsDelivered ==
  [][/\ \A k \in Keys :
          Grew(k[1], k[2]) =>
            \A c \in DOMAIN connections :
              /\ Len(Written(c)) = 1
              /\ Written(c)[1].type = "token_update"
              /\ Written(c)[1].participant_id = k[1]
              /\ Written(c)[1].round = k[2]
              /\ Written(c)[1].total_tokens = Len(Stream(tokenBuffer', k[1], k[2]))
     /\ metrics' # metrics =>
          \A c \in DOMAIN connections :
            Len(Written(c)) = 1 /\ Written(c)[1].type = "completion"]_vars

\* C18: every Metrics row holds, for the tokens and duration_ms of its
\* complete, tpsAvg = tokens / duration_ms * 1000 when duration_ms > 0 and
\* null when duration_ms is 0 or negative; 3 tokens in 1000 ms give 3.
C18_Throughput ==
  \A k \in DOMAIN metrics :
    LET row == metrics[k]
    IN IF row.durationMs > 0
       THEN /\ row.tpsAvg # <<>>
            /\ row.tpsAvg[1] * row.durationMs = row.tokens * 1000 * row.tpsAvg[2]
            /\ row.tokens = 3 /\ row.durationMs = 1000 =>
                 row.tpsAvg[1] = 3 * row.tpsAvg[2]
       ELSE row.tpsAvg = <<>>

\* C18's case: the complete recorded last for p1 took 1000 ms for 3 tokens
C18_Witness ==
  /\ Has(metrics, <<1, "p1">>)
  /\ metrics[<<1, "p1">>].tokens = 3 /\ metrics[<<1, "p1">>].durationMs = 1000
  /\ metrics[<<1, "p1">>].tpsAvg # <<>>

\* C19: once the complete handlers have run, every (round, participant) whose
\* participant is stored and that received a complete has one Metrics row,
\* which holds the values of the complete received last; and there is a row
\* only for a (round, participant) that received a complete.
C19_LastCompleteWins ==
  tasks = EmptyBag =>
    /\ \A k \in DOMAIN received :
         Has(participants, k[2]) =>
           \A id \in RoundsWithIndex(k[1]) :
             /\ Has(metrics, <<id, k[2]>>)
             /\ metrics[<<id, k[2]>>] =
                  [tokens |-> received[k].tokens,
                   durationMs |-> received[k].duration_ms,
                   tpsAvg |-> metrics[<<id, k[2]>>].tpsAvg]
    /\ \A k \in DOMAIN metrics : Has(received, <<rounds[k[1]].index, k[2]>>)

\* C16: a register with valid credentials that completes on a connection the
\* registry already binds is answered error DuplicateBinding and leaves that
\* binding (participant and session) as it was.
C16_DuplicateBinding ==
  [][\A task \in InFlight :
       /\ task.kind = "register" /\ task.pc = "upserted" /\ Stepped(task)
       /\ Has(connections, task.conn)
       => /\ Has(connections', task.conn)
          /\ connections'[task.conn] = connections[task.conn]
          /\ Written(task.conn) = <<ErrorFrame("DuplicateBinding")>>]_vars

\* C17: at most one connection of the registry is bound to a given participant.
C17_OneConnectionPerParticipant ==
  \A c, d \in DOMAIN connections :
    connections[c].participantId = connections[d].participantId => c = d

\* C15: a frame that is not JSON, has an unknown type or fails the schema is
\* answered with exactly one error frame, `Invalid message format`; the step
\* closes no transport, keeps the registry with the connection's binding,
\* changes no token stream and no stored row, and starts and ends no handler.
C15_InvalidFrameAnswered ==
  [][\A c \in Conns :
       (\E i \in 1..Len(Written(c)) :
          Written(c)[i] = ErrorFrame("Invalid message format")) =>
         /\ Written(c) = <<ErrorFrame("Invalid message format")>>
         /\ \A d \in Conns \ {c} : Written(d) = <<>>
         /\ ws[c] = "open" /\ ws' = ws
         /\ connections' = connections
         /\ tokenBuffer' = tokenBuffer
         /\ participants' = participants /\ sessions' = sessions
         /\ tasks' = tasks]_vars

\* C15's case: c1, bound to p1, was answered for a malformed frame, kept its
\* binding, and p1's next token was pushed; c2 was answered for a malformed
\* frame and registered afterwards
C15_Witness ==
  /\ sent["c1"] = <<RegisteredFrame(1), ErrorFrame("Invalid message format")>>
  /\ Has(connections, "c1") /\ connections["c1"].participantId = "p1"
  /\ Stream(tokenBuffer, "p1", 1) = <<"a">>
  /\ sent["c2"] = <<ErrorFrame("Invalid message format"), RegisteredFrame(1)>>
  /\ Has(connections, "c2")

\* C20: a challenge frame is written only by the broadcast of a startRound,
\* once, and only to connections the registry holds at that moment; a step
\* of a register handler writes no challenge, whatever rounds are active.
C20_ChallengeOnlyOnStart ==
  [][/\ \A c \in Conns :
          (\E i \in 1..Len(Written(c)) : Written(c)[i].type = "challenge") =>
            \E task \in StartTasks :
              /\ task.pc = "updated" /\ Stepped(task)
              /\ Has(connections, c)
              /\ Written(c) = <<Challenge(task.round[1])>>
     /\ \A task \in InFlight :
          task.kind = "register" /\ Stepped(task) =>
            \A c \in Conns : \A i \in 1..Len(Written(c)) :
              Written(c)[i].type \in {"registered", "error"}]_vars

\* C20's case: round 1 is active and c1 was sent its challenge; c2 registered
\* afterwards and was sent `registered` only
C20_Witness ==
  /\ Len(rounds) >= 1 /\ RoundState(rounds[1]) = "active"
  /\ Len(sent["c1"]) = 2 /\ sent["c1"][2].type = "challenge"
  /\ Has(connections, "c2")
  /\ sent["c2"] = <<RegisteredFrame(1)>>
  /\ StartTasks = {}

\* C21: a heartbeat is written only while the timer is set, and a tick writes
\* one heartbeat{ts} to every connection of the registry and to no other;
\* cleanup() clears the timer, closes the transport of every connection of the
\* registry and leaves the registry and the token buffers empty; and a
\* cleared timer stays cleared, so no heartbeat follows.
C21_HeartbeatUntilCleanup ==
  [][/\ (\E c \in Conns : \E i \in 1..Len(Written(c)) :
           Written(c)[i].type = "heartbeat") =>
          /\ heartbeatInterval = "set"
          /\ \E ts \in Timestamps : \A d \in Conns :
               Written(d) = IF Has(connections, d)
                            THEN <<[type |-> "heartbeat", ts |-> ts]>> ELSE <<>>
     /\ heartbeatInterval = "set" /\ heartbeatInterval' = "cleared" =>
          /\ connections' = EmptyMap
          /\ tokenBuffer' = EmptyMap
          /\ \A c \in DOMAIN connections : ws'[c] = "closed"
          /\ sent' = sent
     /\ heartbeatInterval = "cleared" => heartbeatInterval' = "cleared"]_vars

\* C21's case: c1 was sent a heartbeat, p1 streamed a token, and cleanup()
\* then closed c1 and emptied the registry and the buffers
C21_Witness ==
  /\ heartbeatInterval = "cleared"
  /\ \E i \in 1..Len(sent["c1"]) : sent["c1"][i].type = "heartbeat"
  /\ ws["c1"] = "closed" /\ ws["c2"] = "open"
  /\ connections = EmptyMap /\ tokenBuffer = EmptyMap

\* C22: a round is created only in a session that exists and is active, and
\* it is created pending, with no start and no end timestamp.
C22_CreateRoundNeedsActiveSession ==
  [][Len(rounds') > Len(rounds) =>
       LET round == rounds'[Len(rounds')]
       IN /\ round.sessionId \in 1..Len(sessions)
          /\ sessions[round.sessionId].status = "active"
          /\ RoundState(round) = "pending"]_vars

\* the handlers in flight for connection c
HandlersOf(c) ==
  LET S == {task \in InFlight : Has(task, "conn") /\ task.conn = c}
  IN SumOver(S, [task \in S |-> CopiesIn(task, tasks)])

\* C28: start is an atomic check-and-set on the round's state: a startRound
\* that writes the start timestamp finds the round pending at the write, and
\* the challenge of a round is written at most once to a connection.
C28_AtomicStart ==
  [][/\ \A task \in StartTasks :
          task.pc = "found" /\ Stepped(task) /\ rounds' # rounds =>
            RoundState(rounds[task.roundId]) = "pending"
     /\ \A c \in Conns :
          Cardinality({i \in 1..Len(sent'[c]) : sent'[c][i].type = "challenge"}) <= 1]_vars

\* C29: at most one handler is in flight for a connection: the handling of a
\* message ends before the handling of the connection's next message begins.
C29_OneHandlerPerConnection ==
  \A c \in Conns : HandlersOf(c) <= 1

\* the complete handlers in flight
CompleteTasks == {task \in InFlight : task.kind = "complete"}

\* C30: a complete handler that ends, its store call rejected or not, writes
\* nothing to its sender (no exception reaches the message handler), closes
\* no transport, leaves the registry and every token stream as they were; and
\* while a complete handler is in flight a token frame is handled as ever:
\* validated against its stream and appended.
C30_CompleteFailureSwallowed ==
  [][/\ \A task \in CompleteTasks :
          Stepped(task) =>
            /\ sent' = sent /\ ws' = ws
            /\ connections' = connections /\ tokenBuffer' = tokenBuffer
     /\ CompleteTasks # {} /\ accepted' # accepted =>
          \E m \in StreamTokens :
            /\ tokenBuffer' = HandleTokenBuffer(tokenBuffer, m)
            /\ SeqMatches(m, Stream(tokenBuffer, m.participant_id, m.round))
            /\ Stream(tokenBuffer', m.participant_id, m.round) =
                 Append(Stream(tokenBuffer, m.participant_id, m.round), m.content)]_vars

\* C30's case: the complete of the stored participant p1 was rejected by the
\* store (no row), its handler has ended, p1's stream holds the token handled
\* meanwhile and c1 is open and bound
C30_Witness ==
  /\ tasks = EmptyBag
  /\ Has(received, <<1, "p1">>) /\ ~Has(metrics, <<1, "p1">>)
  /\ Stream(tokenBuffer, "p1", 1) = <<"a">>
  /\ ws["c1"] = "open" /\ Has(connections, "c1")
  /\ \A i \in 1..Len(sent["c1"]) : sent["c1"][i].type # "error"

\* the score as the caller wrote it
Whole(n) == <<n, 1>>

\* C23: a vote is recorded only with a score that is an integer in 1..5; a
\* call with any other score (0, 6, 2.5) fails as an invalid score and leaves
\* the recorded votes as they were.
C23_ScoreIntegerInRange ==
  [][reply'.op = "castVote" /\ reply' # reply =>
       IF reply'.score \in {Whole(n) : n \in 1..5}
       THEN reply'.outcome \in {"ok", "RoundNotFound"}
       ELSE /\ reply'.outcome \in {"InvalidScore", "ValidationError"}
            /\ votes' = votes]_vars

\* C23's case: the score 2.5 was refused and a vote of 5 is recorded
C23_Witness ==
  /\ reply.op = "castVote" /\ reply.score = <<5, 2>>
  /\ reply.outcome = "InvalidScore"
  /\ Has(votes, <<1, "v1", "p1">>) /\ votes[<<1, "v1", "p1">>] = Whole(5)

\* the counted scores of p in round 1, and their sum
Counted(p) == {v \in Voters : Has(votes, <<1, v, p>>)}

Total(p) == SumOver(Counted(p), [v \in Counted(p) |-> votes[<<1, v, p>>][1]])

\* C24: the scoreboard of a round lists each voted participant once, counts
\* one vote per voter with the score recorded last, and is ordered by
\* totalScore = avgScore x voteCount descending, then by avgScore, then by
\* participant identity: scores 4, 4, 4 (total 12) rank above 5, 5 (total 10).
C24_ScoreboardOrder ==
  reply.op = "getScoreboard" /\ reply.roundId = 1 =>
    LET board == reply.board
    IN /\ {board[i].participantId : i \in DOMAIN board} =
            {p \in Pids : Counted(p) # {}}
       /\ \A i \in DOMAIN board :
            LET p == board[i].participantId
            IN /\ board[i].voteCount = Cardinality(Counted(p))
               /\ Same(board[i].totalScore, Whole(Total(p)))
               /\ Same(board[i].avgScore, <<Total(p), Cardinality(Counted(p))>>)
       /\ \A i, j \in DOMAIN board :
            i < j =>
              LET p == board[i].participantId
                  q == board[j].participantId
              IN \/ Total(p) > Total(q)
                 \/ /\ Total(p) = Total(q)
                    /\ Total(p) * Cardinality(Counted(q)) >
                         Total(q) * Cardinality(Counted(p))
                 \/ /\ Total(p) = Total(q)
                    /\ Cardinality(Counted(p)) = Cardinality(Counted(q))
                    /\ PidRank[p] < PidRank[q]
       /\ (\A v \in Voters : Has(votes, <<1, v, "p2">>) /\ votes[<<1, v, "p2">>] = Whole(4))
          /\ Cardinality(Counted("p1")) = 2
          /\ (\A v \in Counted("p1") : votes[<<1, v, "p1">>] = Whole(5)) =>
            board[1].participantId = "p2"

\* C24's case: p2 holds 4, 4, 4 and p1 holds 5, 5, and the scoreboard lists
\* p2 first
C24_Witness ==
  /\ reply.op = "getScoreboard" /\ reply.roundId = 1
  /\ Total("p2") = 12 /\ Cardinality(Counted("p2")) = 3
  /\ Total("p1") = 10 /\ Cardinality(Counted("p1")) = 2
  /\ Len(reply.board) = 2 /\ reply.board[1].participantId = "p2"

\* C26: for every positive maxTokens and every mock response, generate has
\* called the callback at most maxTokens times at any moment, and at least
\* once when it resolves.
C26_MockTokenCount ==
  /\ runner.phase # "idle" => runner.calls <= runner.maxTokens
  /\ runner.phase = "done" => runner.calls >= 1

\* C26's case: generate resolved for maxTokens 50 and the 16-word response:
\* 16 words and the 2 tokens that remain of 50 - 16 * 3
C26_Witness ==
  /\ runner.phase = "done" /\ runner.words = 16
  /\ runner.maxTokens = 50 /\ runner.calls = 18

\* C25: the client makes at most 5 reconnection attempts in a row, the first
\* delayed by 1 s and each next by twice the delay before, and the largest
\* delay, that of the 5th attempt, is about 32 s.
C25_ReconnectBackoff ==
  /\ client.reconnectAttempts <= 5
  /\ Len(client.delays) = client.reconnectAttempts
  /\ \A i \in 1..Len(client.delays) :
       client.delays[i] = IF i = 1 THEN 1000 ELSE 2 * client.delays[i - 1]
  /\ Len(client.delays) = 5 => client.delays[5] \in 31000..33000

\* the token frames the client transmitted for round r
TokensOut(r) ==
  LET IsToken(f) == f.type = "token" /\ f.round = r
  IN SelectSeq(client.out, IsToken)

\* the complete and error frames the client transmitted for round r
EndsOut(r) ==
  {k \in 1..Len(client.out) :
     client.out[k].type \in {"complete", "error"} /\ client.out[k].round = r}

\* C27: for each challenge the transmitted token frames carry seq 0, 1, 2, ...
\* without gaps, a transmitted complete carries the number of token frames
\* transmitted, and a handler that has ended has transmitted one complete or
\* one error, whatever the socket's state was during the generation.
C27_TransmittedSequence ==
  \A r \in RoundIds :
    /\ \A i \in 1..Len(TokensOut(r)) : TokensOut(r)[i].seq = i - 1
    /\ \A k \in EndsOut(r) :
         client.out[k].type = "complete" =>
           client.out[k].tokens = Len(TokensOut(r))
    /\ Cardinality(EndsOut(r)) <= 1
    /\ client.round > r \/ (client.round = r /\ client.phase = "idle") =>
         Cardinality(EndsOut(r)) = 1

\* C33: the Map getCurrentRoundTokens returned stays as it was returned:
\* tokens accepted after the call do not alter its sequences.
C33_SnapshotPointInTime == snapshot.view = snapshot.taken

\* C31: when a session is ended and its successor created, every token
\* stream is cleared: a snapshot taken afterwards holds no fragment of the
\* ended session and seq 0 is the next seq of every stream.
C31_StreamsClearedWithSession ==
  [][Len(sessions') > Len(sessions) =>
       \A p \in Pids, r \in TokenRounds :
         /\ Stream(tokenBuffer', p, r) = <<>>
         /\ Has(GetCurrentRoundTokens(tokenBuffer', r), p) =>
              GetCurrentRoundTokens(tokenBuffer', r)[p] = <<>>]_vars

\* C32: when a register is answered `registered`, the stored Participant
\* belongs to the session whose id the reply carries and the binding records,
\* also when the participant was first stored in an earlier session.
C32_ParticipantInRegisteredSession ==
  [][\A c \in Conns :
       (\E i \in 1..Len(Written(c)) : Written(c)[i].type = "registered") =>
         /\ Has(connections', c)
         /\ Has(participants', connections'[c].participantId)
         /\ participants'[connections'[c].participantId].sessionId =
              connections'[c].sessionId
         /\ Written(c) = <<RegisteredFrame(connections'[c].sessionId)>>]_vars

\* C36: a token is appended only to the stream of a round index that names a
\* round of the active session that is started and not ended.
C36_TokensOnlyForActiveRound ==
  [][\A p \in Pids, r \in TokenRounds :
       Len(Stream(tokenBuffer', p, r)) > Len(Stream(tokenBuffer, p, r)) =>
         \E id \in 1..Len(rounds) :
           /\ rounds[id].index = r
           /\ RoundState(rounds[id]) = "active"
           /\ sessions[rounds[id].sessionId].status = "active"]_vars

\* C38: every connection of the registry is bound to a session whose status
\* is active.
C38_BoundToActiveSession ==
  \A c \in DOMAIN connections :
    sessions[connections[c].sessionId].status = "active"

\* C37: a Metrics row is attached to a round of the session its participant
\* is registered in, which is the active session.
C37_MetricsInSendersSession ==
  \A k \in DOMAIN metrics :
    /\ rounds[k[1]].sessionId = participants[k[2]].sessionId
    /\ sessions[rounds[k[1]].sessionId].status = "active"

\* C39: a kick of P leaves no connection bound to P, and a connection whose
\* participant was kicked is written no broadcast and has no token of that
\* participant appended.
C39_KickUnbinds ==
  [][/\ \A p \in Pids :
          Has(participants, p) /\ ~Has(participants', p) =>
            \A c \in DOMAIN connections' : connections'[c].participantId # p
     /\ \A c \in DOMAIN connections :
          ~Has(participants, connections[c].participantId) =>
            /\ Written(c) = <<>>
            /\ \A r \in TokenRounds :
                 Stream(tokenBuffer', connections[c].participantId, r) =
                   Stream(tokenBuffer, connections[c].participantId, r)]_vars

\* C40: once the application has called disconnect(), no reconnection is
\* scheduled and no socket is connecting or open.
C40_NoReconnectAfterDisconnect ==
  client.disconnected =>
    /\ client.timer = None
    /\ client.ws \notin {"connecting", "open"}

\* s is an initial part of t
IsPrefix(s, t) == Len(s) <= Len(t) /\ SubSeq(t, 1, Len(s)) = s

\* C35: until cleanup(), a transport that closes loses its own registry entry
\* and nothing else (no entry: nothing changes): the other bindings and every
\* token stream stay as they were; no step shortens a stream or changes a
\* fragment of it, and a token that is appended carries the seq that equals
\* the length its stream had, on whatever connection it arrives.
C35_DisconnectKeepsStreams ==
  [][heartbeatInterval' = "set" =>
       /\ \A c \in Conns :
            ws[c] = "open" /\ ws'[c] = "closed" =>
              /\ connections' = [d \in DOMAIN connections \ {c} |-> connections[d]]
              /\ tokenBuffer' = tokenBuffer
       /\ \A p \in Pids, r \in TokenRounds :
            /\ IsPrefix(Stream(tokenBuffer, p, r), Stream(tokenBuffer', p, r))
            /\ Len(Stream(tokenBuffer', p, r)) > Len(Stream(tokenBuffer, p, r)) =>
                 /\ Len(accepted'[p][r]) = Len(Stream(tokenBuffer', p, r))
                 /\ accepted'[p][r][Len(accepted'[p][r])].seq =
                      Len(Stream(tokenBuffer, p, r))]_vars

\* C35's case: c1, on which p1 streamed "a", has closed and left the
\* registry; p1 has registered again on c2 and its next token, seq 1, was
\* appended to the stream that was kept
C35_Witness ==
  /\ heartbeatInterval = "set"
  /\ ws["c1"] = "closed" /\ ~Has(connections, "c1")
  /\ Has(connections, "c2") /\ connections["c2"].participantId = "p1"
  /\ Stream(tokenBuffer, "p1", 1) = <<"a", "b">>
  /\ accepted["p1"][1][2].seq = 1

\* the heartbeat frames written to c
Heartbeats(c) == {i \in 1..Len(sent[c]) : sent[c][i].type = "heartbeat"}

\* a broadcast's write to c failed: c is in the registry, its transport
\* throws, and another connection was written a heartbeat that c was not
FailedWrite(c) ==
  /\ Has(connections, c) /\ Throws(c)
  /\ \E d \in Conns : Cardinality(Heartbeats(d)) > Cardinality(Heartbeats(c))

\* C34: a connection to which a broadcast's write failed is eventually
\* removed from the registry.
C34_FailedWriteCleansUp ==
  \A c \in Conns : [](FailedWrite(c) => <>(~Has(connections, c)))

====
